---- MODULE Spec2Model ----
(***************************************************************************)
(* AreTheyIn API (src/server.js, lines 1-333): a poller that fetches an    *)
(* HTML status board, turns each table row into a record, deduplicates and *)
(* sorts the records, and keeps the result in a process-wide cache that    *)
(* the HTTP routes read.                                                   *)
(*                                                                         *)
(* Text is modelled as a sequence of characters, each character a TLA+     *)
(* string; JavaScript's null and undefined are the one-element sequence    *)
(* Null, which no text equals because its element is not a character.      *)
(***************************************************************************)
EXTENDS Integers, Sequences, FiniteSets, TLC

\* ------------------------------------------------------------------ bounds
\* The clock runs from 0 to MaxTime, in units of ten seconds.
MaxTime == 4
\* POLL_MS is configured between 1 and MaxPoll units.
MaxPoll == 3
\* A page of the pipeline specification holds at most MaxRows rows.
MaxRows == 3
\* A text of the cell parser specifications is made of at most MaxPieces pieces.
MaxPieces == 3

\* --------------------------------------------------------------- constants
\* axios timeout: 20_000 ms, in units of ten seconds.
FetchTimeout == 2
\* rowToRecord needs at least seven td.OtlkItem cells.
MinCells == 7
\* order[...] ?? 99
RankFallback == 99

\* -------------------------------------------------------------------- text
Null == <<"NULL">>
NBSP == "U+00A0"
EMDASH == "U+2014"
ENDASH == "U+2013"

UpperCase == <<"A", "B", "C", "D", "E", "F", "G", "H", "I", "J", "K", "L", "M",
               "N", "O", "P", "Q", "R", "S", "T", "U", "V", "W", "X", "Y", "Z">>
LowerCase == <<"a", "b", "c", "d", "e", "f", "g", "h", "i", "j", "k", "l", "m",
               "n", "o", "p", "q", "r", "s", "t", "u", "v", "w", "x", "y", "z">>
Digits == <<"0", "1", "2", "3", "4", "5", "6", "7", "8", "9">>

IndexIn(alphabet, c) ==
  IF \E i \in 1..Len(alphabet) : alphabet[i] = c
  THEN CHOOSE i \in 1..Len(alphabet) : alphabet[i] = c
  ELSE 0

IsDigit(c) == IndexIn(Digits, c) > 0

\* String.prototype.toLowerCase, one character.
ToLowerChar(c) ==
  IF IndexIn(UpperCase, c) > 0 THEN LowerCase[IndexIn(UpperCase, c)] ELSE c

toLowerCase(s) == [i \in 1..Len(s) |-> ToLowerChar(s[i])]

\* The regular expression class \s.
IsSpace(c) == c \in {" ", "\t", "\n", NBSP}

\* s.slice(i - 1): the text from position i on.
From(s, i) == IF i > Len(s) THEN <<>> ELSE SubSeq(s, i, Len(s))

MatchAt(s, i, pat) ==
  /\ i + Len(pat) - 1 <= Len(s)
  /\ SubSeq(s, i, i + Len(pat) - 1) = pat

\* /pat/.test(s) for a literal pattern.
Contains(s, pat) == \E i \in 1..(Len(s) + 1) : MatchAt(s, i, pat)

\* s.replace(/pat/g, rep) for a literal pattern, scanning left to right.
RECURSIVE ReplaceFrom(_, _, _, _)
ReplaceFrom(s, i, pat, rep) ==
  IF i > Len(s) THEN <<>>
  ELSE IF MatchAt(s, i, pat) THEN rep \o ReplaceFrom(s, i + Len(pat), pat, rep)
  ELSE <<s[i]>> \o ReplaceFrom(s, i + 1, pat, rep)

ReplaceAll(s, pat, rep) == ReplaceFrom(s, 1, pat, rep)

\* The length of the longest run of characters in class at position i.
RECURSIVE RunLen(_, _, _)
RunLen(s, i, class) ==
  IF i <= Len(s) /\ s[i] \in class THEN 1 + RunLen(s, i + 1, class) ELSE 0

SpaceClass == {" ", "\t", "\n", NBSP}
BlankClass == {" ", "\t"}

\* .replace(/\u00A0|&nbsp;/g, " ")
RECURSIVE ReplaceNbspFrom(_, _)
ReplaceNbspFrom(s, i) ==
  IF i > Len(s) THEN <<>>
  ELSE IF s[i] = NBSP THEN <<" ">> \o ReplaceNbspFrom(s, i + 1)
  ELSE IF MatchAt(s, i, <<"&", "n", "b", "s", "p", ";">>)
       THEN <<" ">> \o ReplaceNbspFrom(s, i + 6)
  ELSE <<s[i]>> \o ReplaceNbspFrom(s, i + 1)

\* .replace(/[ \t]+/g, " ")
RECURSIVE CollapseBlanksFrom(_, _)
CollapseBlanksFrom(s, i) ==
  IF i > Len(s) THEN <<>>
  ELSE IF s[i] \in BlankClass
       THEN <<" ">> \o CollapseBlanksFrom(s, i + RunLen(s, i, BlankClass))
  ELSE <<s[i]>> \o CollapseBlanksFrom(s, i + 1)

\* The last position of a newline in positions lo..hi, 0 when there is none.
LastNewline(s, lo, hi) ==
  IF \E j \in lo..hi : s[j] = "\n"
  THEN CHOOSE j \in lo..hi : s[j] = "\n" /\ \A k \in (j + 1)..hi : s[k] # "\n"
  ELSE 0

\* .replace(/\s+\n/g, "\n"): \s+ is greedy and gives back to the last newline
\* of the run that has at least one space character before it.
RECURSIVE SpaceBeforeNewlineFrom(_, _)
SpaceBeforeNewlineFrom(s, i) ==
  IF i > Len(s) THEN <<>>
  ELSE LET n == RunLen(s, i, SpaceClass)
           j == IF n >= 2 THEN LastNewline(s, i + 1, i + n - 1) ELSE 0
       IN IF j > 0 THEN <<"\n">> \o SpaceBeforeNewlineFrom(s, j + 1)
          ELSE <<s[i]>> \o SpaceBeforeNewlineFrom(s, i + 1)

\* .replace(/\n\s+/g, "\n")
RECURSIVE NewlineBeforeSpaceFrom(_, _)
NewlineBeforeSpaceFrom(s, i) ==
  IF i > Len(s) THEN <<>>
  ELSE IF s[i] = "\n" /\ RunLen(s, i + 1, SpaceClass) >= 1
       THEN <<"\n">> \o NewlineBeforeSpaceFrom(s, i + 1 + RunLen(s, i + 1, SpaceClass))
  ELSE <<s[i]>> \o NewlineBeforeSpaceFrom(s, i + 1)

\* String.prototype.trim
RECURSIVE TrimEnd(_)
TrimEnd(s) ==
  IF Len(s) > 0 /\ IsSpace(s[Len(s)]) THEN TrimEnd(SubSeq(s, 1, Len(s) - 1)) ELSE s

trim(s) == TrimEnd(From(s, 1 + RunLen(s, 1, SpaceClass)))

\* decode: (s ?? "") and the chain of replacements.
decode(s) ==
  LET s0 == IF s = Null THEN <<>> ELSE s
      s1 == ReplaceNbspFrom(s0, 1)
      s2 == ReplaceAll(s1, <<"&", "a", "m", "p", ";">>, <<"&">>)
      s3 == ReplaceAll(s2, <<"&", "l", "t", ";">>, <<"<">>)
      s4 == ReplaceAll(s3, <<"&", "g", "t", ";">>, <<">">>)
      s5 == CollapseBlanksFrom(s4, 1)
      s6 == SpaceBeforeNewlineFrom(s5, 1)
      s7 == NewlineBeforeSpaceFrom(s6, 1)
  IN trim(s7)

\* /^MM\/dd(\s+)HH:mm$/i.test(text)
IsTemplateToken(text) ==
  LET t == toLowerCase(text)
      n == Len(t)
  IN /\ n >= 11
     /\ SubSeq(t, 1, 5) = <<"m", "m", "/", "d", "d">>
     /\ SubSeq(t, n - 4, n) = <<"h", "h", ":", "m", "m">>
     /\ \A k \in 6..(n - 5) : IsSpace(t[k])

\* html.replace(/<[^>]*>/g, "")
RECURSIVE StripTagsFrom(_, _)
StripTagsFrom(s, i) ==
  IF i > Len(s) THEN <<>>
  ELSE IF s[i] = "<" /\ \E j \in (i + 1)..Len(s) : s[j] = ">"
       THEN StripTagsFrom(s, 1 + CHOOSE j \in (i + 1)..Len(s) :
                                     s[j] = ">" /\ \A k \in (i + 1)..(j - 1) : s[k] # ">")
  ELSE <<s[i]>> \o StripTagsFrom(s, i + 1)

\* x || null
OrNull(s) == IF s = <<>> \/ s = Null THEN Null ELSE s

\* x || ""
OrEmpty(s) == IF s = Null THEN <<>> ELSE s

\* stripped || text
StrippedOr(stripped, text) == IF stripped # <<>> THEN stripped ELSE text

\* extractCellText after the decoding of the cell's text.
ExtractDecoded(text, html) ==
  IF IsTemplateToken(text) \/ text = <<>> \/ text = <<EMDASH>>
  THEN StrippedOr(decode(StripTagsFrom(OrEmpty(html), 1)), text)
  ELSE text

\* A td is [text |-> $(td).text(), html |-> $(td).html()].
extractCellText(td) == ExtractDecoded(decode(td.text), td.html)

\* ---------------------------------------------------------- field parsers
DashClass == {"-", ENDASH, EMDASH}

\* The length of the match of /\s*[-\u2013\u2014]\s+/ that starts at position i,
\* 0 when none starts there.
SeparatorLenAt(s, i) ==
  LET k == RunLen(s, i, SpaceClass)
      w == RunLen(s, i + k + 1, SpaceClass)
  IN IF i + k <= Len(s) /\ s[i + k] \in DashClass /\ w >= 1 THEN k + 1 + w ELSE 0

\* t.split(/\s*[-\u2013\u2014]\s+/): the parts between the matches, cur being
\* the part collected so far.
RECURSIVE SplitFrom(_, _, _)
SplitFrom(s, i, cur) ==
  IF i > Len(s) THEN <<cur>>
  ELSE IF SeparatorLenAt(s, i) > 0
       THEN <<cur>> \o SplitFrom(s, i + SeparatorLenAt(s, i), <<>>)
  ELSE SplitFrom(s, i + 1, Append(cur, s[i]))

\* parts.join(sep)
RECURSIVE Join(_, _)
Join(parts, sep) ==
  IF Len(parts) = 0 THEN <<>>
  ELSE IF Len(parts) = 1 THEN parts[1]
  ELSE parts[1] \o sep \o Join(Tail(parts), sep)

splitNameAndTitle(raw) ==
  LET t == decode(raw)
      parts == SplitFrom(t, 1, <<>>)
  IN IF t = <<>> THEN [name |-> Null, title |-> Null]
     ELSE IF Len(parts) >= 2
          THEN [name |-> OrNull(trim(Head(parts))),
                title |-> OrNull(trim(Join(Tail(parts), <<" ", "-", " ">>)))]
     ELSE [name |-> t, title |-> Null]

\* text.replace(/\D+/g, "")
RECURSIVE DigitsOf(_)
DigitsOf(s) ==
  IF s = <<>> THEN <<>>
  ELSE IF IsDigit(Head(s)) THEN <<Head(s)>> \o DigitsOf(Tail(s))
  ELSE DigitsOf(Tail(s))

\* A normalizer that leaves the country code out of a ten-digit number.
ParsePhoneDigitsNoCountryCode(text, digits) ==
  IF text = <<>> THEN [raw |-> Null, digits |-> Null, e164 |-> Null, pretty |-> Null]
  ELSE IF digits = <<>>
       THEN [raw |-> text, digits |-> Null, e164 |-> Null, pretty |-> text]
  ELSE [raw |-> text, digits |-> digits,
        e164 |-> IF Len(digits) >= 10 THEN <<"+">> \o digits ELSE Null,
        pretty |-> text]

\* parsePhone after the decoding, digits being text.replace(/\D+/g, "").
ParsePhoneDigits(text, digits) ==
  IF text = <<>> THEN [raw |-> Null, digits |-> Null, e164 |-> Null, pretty |-> Null]
  ELSE IF digits = <<>>
       THEN [raw |-> text, digits |-> Null, e164 |-> Null, pretty |-> text]
  ELSE IF Len(digits) = 10
       THEN [raw |-> text, digits |-> digits,
             e164 |-> <<"+", "1">> \o digits,
             pretty |-> <<"(">> \o SubSeq(digits, 1, 3) \o <<")", " ">>
                        \o SubSeq(digits, 4, 6) \o <<"-">> \o SubSeq(digits, 7, 10)]
  ELSE IF Len(digits) = 7
       THEN [raw |-> text, digits |-> digits, e164 |-> Null,
             pretty |-> SubSeq(digits, 1, 3) \o <<"-">> \o SubSeq(digits, 4, 7)]
  ELSE [raw |-> text, digits |-> digits,
        e164 |-> IF Len(digits) >= 11 THEN <<"+">> \o digits ELSE Null,
        pretty |-> text]

ParsePhoneDecoded(text) == ParsePhoneDigits(text, DigitsOf(text))

parsePhone(raw) == ParsePhoneDecoded(decode(raw))

\* The regular expression class \w.
IsWordChar(c) ==
  IsDigit(c) \/ IndexIn(UpperCase, c) > 0 \/ IndexIn(LowerCase, c) > 0 \/ c = "_"

\* The regular expression class [A-Za-z].
AlphaClass ==
  {UpperCase[i] : i \in 1..Len(UpperCase)} \cup {LowerCase[i] : i \in 1..Len(LowerCase)}

IsAlpha(c) == c \in AlphaClass

\* \b before position i: exactly one of the characters at i - 1 and i is a
\* word character.
WordBoundaryAt(s, i) ==
  (i > 1 /\ i - 1 <= Len(s) /\ IsWordChar(s[i - 1])) # (i >= 1 /\ i <= Len(s) /\ IsWordChar(s[i]))

\* String.prototype.padStart(n, "0")
RECURSIVE padStart(_, _)
padStart(s, n) == IF Len(s) >= n THEN s ELSE padStart(<<"0">> \o s, n)

\* `${Number(d)}` for a text of decimal digits: no leading zeros.
RECURSIVE NumberText(_)
NumberText(d) == IF Len(d) >= 2 /\ Head(d) = "0" THEN NumberText(Tail(d)) ELSE d

\* String.prototype.toUpperCase
toUpperCase(s) ==
  [i \in 1..Len(s) |->
     IF IndexIn(LowerCase, s[i]) > 0 THEN UpperCase[IndexIn(LowerCase, s[i])] ELSE s[i]]

\* /^\d{3,4}$/.test(text)
IsPureTime(text) ==
  /\ Len(text) \in {3, 4}
  /\ \A i \in 1..Len(text) : IsDigit(text[i])

\* \s*(AM|PM)\b, case-insensitive, from position p on: \s* takes the whole run
\* of spaces, since no shorter run is followed by a letter.
MeridiemAfter(s, p) ==
  LET k == p + RunLen(s, p, SpaceClass)
  IN /\ k + 1 <= Len(s)
     /\ ToLowerChar(s[k]) \in {"a", "p"}
     /\ ToLowerChar(s[k + 1]) = "m"
     /\ WordBoundaryAt(s, k + 2)

\* The ways \b(\d{1,2}):?(\d{2})? can take its optional parts, in the order
\* the backtracking tries them: the number of hour digits, of colons and of
\* minute digits.
TimeShapes ==
  << <<2, 1, 2>>, <<2, 1, 0>>, <<2, 0, 2>>, <<2, 0, 0>>,
     <<1, 1, 2>>, <<1, 1, 0>>, <<1, 0, 2>>, <<1, 0, 0>> >>

\* /\b(\d{1,2}):?(\d{2})?\s*(AM|PM)\b/i matches at position i in shape sh.
TimeMatchAt(s, i, sh) ==
  LET c == i + sh[1]
      m == c + sh[2]
      e == m + sh[3]
  IN /\ WordBoundaryAt(s, i)
     /\ e - 1 <= Len(s)
     /\ \A k \in i..(c - 1) : IsDigit(s[k])
     /\ sh[2] = 1 => s[c] = ":"
     /\ \A k \in m..(e - 1) : IsDigit(s[k])
     /\ MeridiemAfter(s, e)

\* Some shape matches at position i.
TimeMatchesAt(s, i) == \E k \in 1..Len(TimeShapes) : TimeMatchAt(s, i, TimeShapes[k])

\* The position of the leftmost match, 0 when there is none.
TimeMatchStart(s) ==
  IF \E i \in 1..Len(s) : TimeMatchesAt(s, i)
  THEN CHOOSE i \in 1..Len(s) :
         TimeMatchesAt(s, i) /\ \A y \in 1..(i - 1) : ~TimeMatchesAt(s, y)
  ELSE 0

\* The first shape that matches at position i.
TimeMatchShape(s, i) ==
  TimeShapes[CHOOSE k \in 1..Len(TimeShapes) :
               /\ TimeMatchAt(s, i, TimeShapes[k])
               /\ \A y \in 1..(k - 1) : ~TimeMatchAt(s, i, TimeShapes[y])]

\* The groups of the match at position i in shape sh: m2 is Null when the
\* group took nothing.
TimeMatchGroups(s, i, sh) ==
  [found |-> TRUE,
   m1 |-> SubSeq(s, i, i + sh[1] - 1),
   m2 |-> IF sh[3] = 0 THEN Null
          ELSE SubSeq(s, i + sh[1] + sh[2], i + sh[1] + sh[2] + 1),
   m3 |-> SubSeq(s, i + sh[1] + sh[2] + sh[3] + RunLen(s, i + sh[1] + sh[2] + sh[3], SpaceClass),
                 i + sh[1] + sh[2] + sh[3] + RunLen(s, i + sh[1] + sh[2] + sh[3], SpaceClass) + 1)]

TimeMatchFrom(s, i) ==
  IF i = 0 THEN [found |-> FALSE, m1 |-> Null, m2 |-> Null, m3 |-> Null]
  ELSE TimeMatchGroups(s, i, TimeMatchShape(s, i))

\* text.match(/\b(\d{1,2}):?(\d{2})?\s*(AM|PM)\b/i): the leftmost match, in the
\* first shape that matches there.
TimeMatch(s) == TimeMatchFrom(s, TimeMatchStart(s))

\* text.match(/[A-Za-z]+/g) || []: the maximal runs of letters, in order.
RECURSIVE AlphaRunsFrom(_, _)
AlphaRunsFrom(s, i) ==
  IF i > Len(s) THEN <<>>
  ELSE IF IsAlpha(s[i])
       THEN LET n == RunLen(s, i, AlphaClass)
            IN <<SubSeq(s, i, i + n - 1)>> \o AlphaRunsFrom(s, i + n)
  ELSE AlphaRunsFrom(s, i + 1)

\* The result for a text of three or four digits (lines 81-85).
PureTimeResult(text, padded) ==
  [raw |-> text,
   hhmm |-> SubSeq(padded, 1, 2) \o <<":">> \o SubSeq(padded, 3, 4),
   pretty |-> NumberText(SubSeq(padded, 1, 2)) \o <<":">> \o SubSeq(padded, 3, 4),
   tokens |-> <<NumberText(SubSeq(padded, 1, 2)) \o <<":">> \o SubSeq(padded, 3, 4)>>]

\* A result that does not pad the hour.
MeridiemResultUnpadded(text, h, mm, ampm) ==
  [raw |-> text,
   hhmm |-> NumberText(h) \o <<":">> \o mm,
   pretty |-> NumberText(h) \o <<":">> \o mm \o <<" ">> \o ampm,
   tokens |-> <<ampm>>]

\* The result for a match m of the AM/PM form (lines 91-99).
MeridiemResult(text, h, mm, ampm) ==
  [raw |-> text,
   hhmm |-> h \o <<":">> \o mm,
   pretty |-> NumberText(h) \o <<":">> \o mm \o <<" ">> \o ampm,
   tokens |-> <<ampm>>]

\* (m[2] || "00")
MinutesOf(m) == IF m.m2 = Null THEN <<"0", "0">> ELSE m.m2

\* parseReturning after the decoding, m being text.match(...) of line 89.
ParseReturningText(text, m) ==
  IF text = <<>> THEN [raw |-> Null, hhmm |-> Null, pretty |-> Null, tokens |-> <<>>]
  ELSE IF IsPureTime(text) THEN PureTimeResult(text, padStart(text, 4))
  ELSE IF m.found
       THEN MeridiemResult(text, padStart(m.m1, 2), padStart(MinutesOf(m), 2),
                           toUpperCase(m.m3))
  ELSE [raw |-> text, hhmm |-> Null, pretty |-> text, tokens |-> AlphaRunsFrom(text, 1)]

ParseReturningDecoded(text) == ParseReturningText(text, TimeMatch(text))

parseReturning(raw) == ParseReturningDecoded(decode(raw))

\* JavaScript numbers and the ISO strings of dates: a time value is a number
\* of milliseconds since the epoch or NaN; toISOString() of a valid date is
\* represented by the time value it renders.
NoNumber == [isNull |-> TRUE]
NaN == [nan |-> TRUE]
Finite(ms) == [nan |-> FALSE, ms |-> ms]
NoIso == [isNull |-> TRUE]
toISOString(d) == [iso |-> d.ms]

\* The date-time string format of ECMAScript, with a UTC offset: every host
\* parses it alike.
IsoDateText == <<"1", "9", "7", "0", "-", "0", "1", "-", "0", "2", "T",
                 "0", "0", ":", "0", "0", ":", "0", "0", "Z">>

\* A host parses a text that is not in the date-time string format in its own
\* way: the strict host gives NaN for all of them, the lenient host reads a
\* date out of any text with a digit.
HostChoices == {"strict", "lenient"}

\* new Date(text).getTime() on the given host.
DateTime(text, host) ==
  IF text = IsoDateText THEN Finite(86400000)
  ELSE IF host = "lenient" /\ DigitsOf(text) # <<>> THEN Finite(1000 * Len(text))
  ELSE NaN

FormatTokenSeen ==
  <<"F", "o", "r", "m", "a", "t", "T", "o", "k", "e", "n", "S", "e", "e", "n">>

\* A parser that takes the format token for a timestamp like any other text.
ParseUpdatedTextIgnoresToken(text, d) ==
  [local |-> OrNull(text),
   isoGuess |-> IF text # <<>> /\ ~d.nan THEN toISOString(d) ELSE NoIso,
   epochMs |-> IF text # <<>> /\ ~d.nan THEN d ELSE NoNumber,
   debug |-> Null]

\* A parser that stores getTime() without looking at it.
ParseUpdatedTextKeepsNaN(text, d) ==
  IF IsTemplateToken(text)
  THEN [local |-> Null, isoGuess |-> NoIso, epochMs |-> NoNumber, debug |-> FormatTokenSeen]
  ELSE [local |-> OrNull(text),
        isoGuess |-> IF text # <<>> /\ ~d.nan THEN toISOString(d) ELSE NoIso,
        epochMs |-> IF text # <<>> THEN d ELSE NoNumber,
        debug |-> Null]

\* parseUpdatedFromCell after the extraction of the text, d being the time
\* value of new Date(text).
ParseUpdatedText(text, d) ==
  IF IsTemplateToken(text)
  THEN [local |-> Null, isoGuess |-> NoIso, epochMs |-> NoNumber, debug |-> FormatTokenSeen]
  ELSE [local |-> OrNull(text),
        isoGuess |-> IF text # <<>> /\ ~d.nan THEN toISOString(d) ELSE NoIso,
        epochMs |-> IF text # <<>> /\ ~d.nan THEN d ELSE NoNumber,
        debug |-> Null]

ParseUpdatedExtracted(text, host) == ParseUpdatedText(text, DateTime(text, host))

parseUpdatedFromCell(td, host) == ParseUpdatedExtracted(extractCellText(td), host)

\* normalizeStatus with the fallback of the earlier revision (lines 466-468),
\* which returned the cell's own text capitalised ("Raw" stands for that text).
normalizeStatusRawFallback(trClass, cellText) ==
  LET c == toLowerCase(OrEmpty(trClass))
      t == toLowerCase(OrEmpty(cellText))
  IN IF Contains(c, <<"i", "n", "i", "t", "e", "m">>) \/ t = <<"i", "n">> THEN "In"
     ELSE IF Contains(c, <<"o", "u", "t", "i", "t", "e", "m">>) \/ t = <<"o", "u", "t">>
          THEN "Out"
     ELSE IF Contains(c, <<"u", "n", "a", "v", "a", "i", "l", "a", "b", "l", "e">>)
             \/ t = <<"u", "n", "a", "v", "a", "i", "l", "a", "b", "l", "e">>
          THEN "Unavailable"
     ELSE IF t # <<>> THEN "Raw" ELSE "Unknown"

\* A classifier that lets the class decide before it looks at the text.
normalizeStatusClassFirst(trClass, cellText) ==
  LET c == toLowerCase(OrEmpty(trClass))
      t == toLowerCase(OrEmpty(cellText))
  IN IF Contains(c, <<"i", "n", "i", "t", "e", "m">>) THEN "In"
     ELSE IF Contains(c, <<"o", "u", "t", "i", "t", "e", "m">>) THEN "Out"
     ELSE IF Contains(c, <<"u", "n", "a", "v", "a", "i", "l", "a", "b", "l", "e">>)
          THEN "Unavailable"
     ELSE IF t = <<"i", "n">> THEN "In"
     ELSE IF t = <<"o", "u", "t">> THEN "Out"
     ELSE IF t = <<"u", "n", "a", "v", "a", "i", "l", "a", "b", "l", "e">> THEN "Unavailable"
     ELSE "Unknown"

normalizeStatus(trClass, cellText) ==
  LET c == toLowerCase(OrEmpty(trClass))
      t == toLowerCase(OrEmpty(cellText))
  IN IF Contains(c, <<"i", "n", "i", "t", "e", "m">>) \/ t = <<"i", "n">> THEN "In"
     ELSE IF Contains(c, <<"o", "u", "t", "i", "t", "e", "m">>) \/ t = <<"o", "u", "t">>
          THEN "Out"
     ELSE IF Contains(c, <<"u", "n", "a", "v", "a", "i", "l", "a", "b", "l", "e">>)
             \/ t = <<"u", "n", "a", "v", "a", "i", "l", "a", "b", "l", "e">>
          THEN "Unavailable"
     ELSE "Unknown"

\* ------------------------------------------------------------ row -> record
\* A tr is [class |-> the class attribute or Null, id |-> the id attribute or
\* Null, tds |-> the td.OtlkItem cells in order].
NoRecord == [isNull |-> TRUE]

\* ($tr.attr("id") || "").replace(/^Row/, "")
IdFromAttr(attr) ==
  LET a == OrEmpty(attr)
  IN IF MatchAt(a, 1, <<"R", "o", "w">>) THEN From(a, 4) ELSE a

\* idFromHidden || idFromAttr || null
ResolveId(idFromHidden, idFromAttr) ==
  IF idFromHidden # <<>> THEN idFromHidden ELSE OrNull(idFromAttr)

\* A rowToRecord that gives up on a row whose contact cell holds no number.
BuildRecordNeedsPhone(trClass, rowIdAttr, t, id, status, nt, phone, remarks, returning, updated) ==
  IF id = Null \/ (phone.raw # Null /\ phone.digits = Null) THEN NoRecord
  ELSE [id |-> id, status |-> status,
        name |-> OrNull(nt.name), title |-> OrNull(nt.title),
        contact |-> phone, remarks |-> remarks, returning |-> returning,
        updated |-> updated,
        meta |-> [trClass |-> OrNull(trClass), rowIdAttr |-> OrNull(rowIdAttr),
                  parsedAt |-> t,
                  flags |-> [isIn |-> status = "In", isOut |-> status = "Out",
                             isUnavailable |-> status = "Unavailable"]]]

\* if (!id) return null, and the record literal.
BuildRecord(trClass, rowIdAttr, t, id, status, nt, phone, remarks, returning, updated) ==
  IF id = Null THEN NoRecord
  ELSE [id |-> id, status |-> status,
        name |-> OrNull(nt.name), title |-> OrNull(nt.title),
        contact |-> [raw |-> phone.raw, digits |-> phone.digits,
                     e164 |-> phone.e164, pretty |-> phone.pretty],
        remarks |-> remarks,
        returning |-> [raw |-> returning.raw, hhmm |-> returning.hhmm,
                       pretty |-> returning.pretty, tokens |-> returning.tokens],
        updated |-> [local |-> updated.local, isoGuess |-> updated.isoGuess,
                     epochMs |-> updated.epochMs, debug |-> updated.debug],
        meta |-> [trClass |-> OrNull(trClass), rowIdAttr |-> OrNull(rowIdAttr),
                  parsedAt |-> t,
                  flags |-> [isIn |-> status = "In", isOut |-> status = "Out",
                             isUnavailable |-> status = "Unavailable"]]]

\* The statements of rowToRecord after the check of the number of cells.
ParseRow(trClass, tr, t, host) ==
  BuildRecord(trClass, tr.id, t,
              ResolveId(extractCellText(tr.tds[1]), IdFromAttr(tr.id)),
              normalizeStatus(trClass, extractCellText(tr.tds[2])),
              splitNameAndTitle(extractCellText(tr.tds[3])),
              parsePhone(extractCellText(tr.tds[4])),
              OrNull(extractCellText(tr.tds[5])),
              parseReturning(extractCellText(tr.tds[6])),
              parseUpdatedFromCell(tr.tds[7], host))

\* The record of a row parsed at time t on the given host.
rowToRecord(tr, t, host) ==
  IF Len(tr.tds) < MinCells THEN NoRecord
  ELSE ParseRow(trim(OrEmpty(tr.class)), tr, t, host)

\* $("tr[id^='Row'], tr[class*='Item']:has(td.OtlkItem)")
SelectedRow(tr) ==
  \/ MatchAt(OrEmpty(tr.id), 1, <<"R", "o", "w">>)
  \/ Contains(OrEmpty(tr.class), <<"I", "t", "e", "m">>) /\ Len(tr.tds) >= 1

RECURSIVE SelectRows(_)
SelectRows(trs) ==
  IF trs = <<>> THEN <<>>
  ELSE IF SelectedRow(Head(trs)) THEN <<Head(trs)>> \o SelectRows(Tail(trs))
  ELSE SelectRows(Tail(trs))

\* if (rec && rec.id) items.push(rec)
PushRecord(rec, rest) ==
  IF rec # NoRecord /\ rec.id # <<>> /\ rec.id # Null THEN <<rec>> \o rest ELSE rest

\* rows.each(...): the records of the rows, rejected rows left out.
RECURSIVE CollectItems(_, _, _)
CollectItems(rows, t, host) ==
  IF rows = <<>> THEN <<>>
  ELSE PushRecord(rowToRecord(Head(rows), t, host), CollectItems(Tail(rows), t, host))

\* ------------------------------------------------------------ board reducer
\* The key whose assignment on a plain object sets the prototype instead of
\* creating a property.
ProtoKey == <<"_", "_", "p", "r", "o", "t", "o", "_", "_">>

\* A property key that is a canonical array index: decimal digits without a
\* leading zero (the ids of the model are far below the limit of 2^32 - 2).
IsArrayIndex(key) ==
  /\ Len(key) >= 1
  /\ \A i \in 1..Len(key) : IsDigit(key[i])
  /\ (Len(key) = 1 \/ key[1] # "0")

RECURSIVE IndexValue(_)
IndexValue(key) ==
  IF key = <<>> THEN 0
  ELSE 10 * IndexValue(SubSeq(key, 1, Len(key) - 1)) + (IndexIn(Digits, key[Len(key)]) - 1)

\* (acc[r.id] = r, acc): acc is the sequence of the object's own properties
\* in the order of their creation.
PutRecord(acc, r) ==
  IF r.id = ProtoKey THEN acc
  ELSE IF \E i \in 1..Len(acc) : acc[i].id = r.id
       THEN [i \in 1..Len(acc) |-> IF acc[i].id = r.id THEN r ELSE acc[i]]
  ELSE Append(acc, r)

RECURSIVE ReduceInto(_, _)
ReduceInto(acc, items) ==
  IF items = <<>> THEN acc ELSE ReduceInto(PutRecord(acc, Head(items)), Tail(items))

\* The properties whose key satisfies isIndex (or does not), in order.
RECURSIVE FilterProps(_, _)
FilterProps(acc, wantIndex) ==
  IF acc = <<>> THEN <<>>
  ELSE IF IsArrayIndex(Head(acc).id) = wantIndex
       THEN <<Head(acc)>> \o FilterProps(Tail(acc), wantIndex)
  ELSE FilterProps(Tail(acc), wantIndex)

\* Ascending numeric order of array-index keys (the keys are distinct).
RECURSIVE AscendingIndex(_)
AscendingIndex(props) ==
  IF props = <<>> THEN <<>>
  ELSE LET m == CHOOSE i \in 1..Len(props) :
                  \A j \in 1..Len(props) : IndexValue(props[i].id) <= IndexValue(props[j].id)
       IN <<props[m]>> \o AscendingIndex([k \in 1..(Len(props) - 1) |->
                                          IF k < m THEN props[k] ELSE props[k + 1]])

\* Object.values(acc): array-index keys in ascending numeric order, then the
\* other keys in the order of their creation.
ObjectValues(acc) == AscendingIndex(FilterProps(acc, TRUE)) \o FilterProps(acc, FALSE)

\* A reducer that keeps every item: no deduplication.
DedupKeepAll(items) == items

\* Object.values(items.reduce((acc, r) => ((acc[r.id] = r), acc), {}))
Dedup(items) == ObjectValues(ReduceInto(<<>>, items))

\* The collation weight of a character under localeCompare: spaces and
\* punctuation before digits before letters, letters without regard to case.
Punctuation == <<"\t", "\n", " ", "_", "-", ",", ";", ":", "!", "?", ".", "'", "(", ")", "&", "/">>

PrimaryWeight(c) ==
  IF IndexIn(LowerCase, ToLowerChar(c)) > 0 THEN 200 + IndexIn(LowerCase, ToLowerChar(c))
  ELSE IF IsDigit(c) THEN 100 + IndexIn(Digits, c)
  ELSE IndexIn(Punctuation, c)

\* Lower case sorts before upper case when the letters are the same.
CaseWeight(c) == IF IndexIn(UpperCase, c) > 0 THEN 1 ELSE 0

RECURSIVE CompareWeights(_, _, _)
CompareWeights(a, b, i) ==
  IF i > Len(a) /\ i > Len(b) THEN 0
  ELSE IF i > Len(a) THEN -1
  ELSE IF i > Len(b) THEN 1
  ELSE IF PrimaryWeight(a[i]) < PrimaryWeight(b[i]) THEN -1
  ELSE IF PrimaryWeight(a[i]) > PrimaryWeight(b[i]) THEN 1
  ELSE CompareWeights(a, b, i + 1)

RECURSIVE CompareCase(_, _, _)
CompareCase(a, b, i) ==
  IF i > Len(a) THEN 0
  ELSE IF CaseWeight(a[i]) < CaseWeight(b[i]) THEN -1
  ELSE IF CaseWeight(a[i]) > CaseWeight(b[i]) THEN 1
  ELSE CompareCase(a, b, i + 1)

\* a.localeCompare(b): negative, zero or positive.
localeCompare(a, b) ==
  IF CompareWeights(a, b, 1) # 0 THEN CompareWeights(a, b, 1) ELSE CompareCase(a, b, 1)

\* order[status] ?? 99
StatusOrder(status) ==
  CASE status = "In" -> 0
    [] status = "Out" -> 1
    [] status = "Unavailable" -> 2
    [] status = "Unknown" -> 3
    [] OTHER -> RankFallback

\* A comparator that looks at the status alone.
SortCompareStatusOnly(a, b) == StatusOrder(a.status) - StatusOrder(b.status)

\* The comparator of deduped.sort.
SortCompare(a, b) ==
  LET aK == StatusOrder(a.status)
      bK == StatusOrder(b.status)
  IN IF aK # bK THEN aK - bK ELSE localeCompare(OrEmpty(a.name), OrEmpty(b.name))

\* Array.prototype.sort is stable: r goes after every element that does not
\* compare greater than it.
RECURSIVE InsertStable(_, _)
InsertStable(sorted, r) ==
  IF sorted = <<>> THEN <<r>>
  ELSE IF SortCompare(Head(sorted), r) > 0 THEN <<r>> \o sorted
  ELSE <<Head(sorted)>> \o InsertStable(Tail(sorted), r)

RECURSIVE SortFrom(_, _)
SortFrom(sorted, rest) ==
  IF rest = <<>> THEN sorted ELSE SortFrom(InsertStable(sorted, Head(rest)), Tail(rest))

SortItems(items) == SortFrom(<<>>, items)

\* The try block of fetchBoard up to the sort, for the tr elements of a page
\* parsed at time t on the given host.
ReduceBoard(trs, t, host) == SortItems(Dedup(CollectItems(SelectRows(trs), t, host)))

\* ------------------------------------------------------------- source page
\* What cheerio.load(html) gives for the markup the source renders.
Cell(t) == [text |-> t, html |-> t]

Tr(class, idAttr, idText, statusText, nameTitle) ==
  [class |-> class, id |-> idAttr,
   tds |-> <<Cell(idText), Cell(statusText), Cell(nameTitle),
             Cell(<<>>), Cell(<<>>), Cell(<<>>), Cell(<<>>)>>]

RowBob == Tr(<<"I", "n", "I", "t", "e", "m">>, <<"R", "o", "w", "1">>, <<"1">>,
             <<"I", "n">>, <<"B", "o", "b", " ", "-", " ", "C", "F", "I">>)
RowAmy == Tr(<<"O", "u", "t", "I", "t", "e", "m">>, <<"R", "o", "w", "2">>, <<"2">>,
             <<"O", "u", "t">>, <<"a", "m", "y">>)
RowAl == Tr(<<"I", "n", "I", "t", "e", "m">>, <<"R", "o", "w", "1", "0">>, <<"1", "0">>,
            <<"I", "n">>, <<"A", "l">>)
\* The row of Bob rendered a second time, now out.
RowBobOut == Tr(<<"O", "u", "t", "I", "t", "e", "m">>, <<"R", "o", "w", "1">>, <<"1">>,
                <<"O", "u", "t">>, <<"B", "o", "b">>)
\* No identity cell text: the id comes from the id attribute; no name.
RowAttrId == Tr(<<"I", "n", "I", "t", "e", "m">>, <<"R", "o", "w", "x">>, <<NBSP>>,
                <<"i", "n">>, <<>>)
\* Neither an identity cell text nor an id after the prefix.
RowNoId == Tr(<<"U", "n", "a", "v", "a", "i", "l", "a", "b", "l", "e", "I", "t", "e", "m">>,
              <<"R", "o", "w">>, <<>>, <<>>, <<"E", "v", "e">>)
\* Six cells only.
RowShort == [class |-> <<"I", "n", "I", "t", "e", "m">>, id |-> <<"R", "o", "w", "9">>,
             tds |-> <<Cell(<<"9">>), Cell(<<"I", "n">>), Cell(<<"D", "a", "n">>),
                       Cell(<<>>), Cell(<<>>), Cell(<<>>)>>]
\* A class and a status text that are no known status.
RowBusy == Tr(<<"F", "o", "o", "I", "t", "e", "m">>, Null, <<"b">>,
              <<"B", "u", "s", "y">>, <<"a", "l">>)
RowProto == Tr(<<"O", "t", "l", "k", "I", "t", "e", "m">>, Null, ProtoKey,
               <<"U", "n", "a", "v", "a", "i", "l", "a", "b", "l", "e">>, <<"Z", "e", "d">>)
\* A second Al, in after the first one: the same status and name under
\* another id; nothing in its contact, returning and updated cells parses.
RowAlTwin ==
  [class |-> <<"I", "n", "I", "t", "e", "m">>, id |-> <<"R", "o", "w", "3">>,
   tds |-> <<Cell(<<"3">>), Cell(<<"I", "n">>), Cell(<<"A", "l">>),
             Cell(<<"n", "/", "a">>), Cell(<<"o", "n", " ", "c", "a", "l", "l">>),
             Cell(<<"T", "h", "u", " ", "P", "M", " ", "m", "o", "d">>),
             Cell(<<"0", "1", "/", "1", "5", " ", "1", "0", ":", "3", "0">>)>>]
\* A heading row: the selector does not match it.
RowHeading == [class |-> <<"H", "d", "r">>, id |-> Null, tds |-> <<>>]

RowChoices == {RowBob, RowAmy, RowAl, RowBobOut, RowAttrId, RowNoId, RowShort,
               RowBusy, RowProto, RowAlTwin, RowHeading}

\* Every page of at most n rows.
RECURSIVE PagesUpTo(_)
PagesUpTo(n) ==
  IF n = 0 THEN {<<>>}
  ELSE PagesUpTo(n - 1) \cup
       {Append(p, r) : p \in {q \in PagesUpTo(n - 1) : Len(q) = n - 1}, r \in RowChoices}

\* The boards the source serves while the poller runs.
PageChoices == {<<RowHeading, RowBob, RowAmy>>, <<RowAmy, RowBobOut, RowAl, RowBob>>}

\* ReduceBoard of the pages the source serves, tabulated by host, time and
\* page.
BoardAt ==
  [host \in HostChoices |->
     [t \in 0..(MaxTime + 1) |-> [trs \in PageChoices |-> ReduceBoard(trs, t, host)]]]

\* The failures of the try block: err.message, "" for a thrown value without one.
ErrChoices == {"timeout of 20000ms exceeded", ""}

\* ------------------------------------------------------------------- state
VARIABLES
  now,        \* the clock, in units of ten seconds
  pollMs,     \* POLL_MS, in the same units
  nextTick,   \* when the setInterval timer fires next, NotArmed before setInterval
  inflight,   \* the start times of the fetchBoard calls awaiting axios.get
  cache,      \* the object the variable cache refers to; ref is its identity
  listening,  \* the routes are registered and app.listen was called
  resp,       \* the last response of GET /api/status
  alive,      \* no promise of fetchBoard was rejected
  lastGood,   \* history: what the latest successful refresh wrote
  last,       \* history: the refresh attempt that completed last
  failStreak, \* history: the failed attempts since the latest successful one
  pStage,     \* pipeline specification: how far the try block has run
  pTrs,       \* pipeline specification: the tr elements of the page
  pItems,     \* pipeline specification: items
  pDeduped,   \* pipeline specification: deduped
  sClass,     \* classifier specification: trClass
  sText,      \* classifier specification: cellText
  sOut,       \* classifier specification: the status returned
  dText,      \* decoder specification: the text given to decode
  dOnce,      \* decoder specification: decode(dText), Null before the call
  dTwice,     \* decoder specification: decode(dOnce), Null before the call
  phRaw,      \* phone specification: the text given to parsePhone
  phOut,      \* phone specification: what parsePhone returned
  rtRaw,      \* returning specification: the text given to parseReturning
  rtOut,      \* returning specification: what parseReturning returned
  upTd,       \* updated specification: the cell given to parseUpdatedFromCell
  upOut       \* updated specification: what parseUpdatedFromCell returned

vars == <<now, pollMs, nextTick, inflight, cache, listening, resp, alive, lastGood,
          last, failStreak, pStage, pTrs, pItems, pDeduped, sClass, sText, sOut,
          dText, dOnce, dTwice, phRaw, phOut, rtRaw, rtOut, upTd, upOut>>

lifeVars == <<now, pollMs, nextTick, inflight, listening, resp, alive, lastGood,
              last, failStreak>>
pipeVars == <<pStage, pTrs, pItems, pDeduped>>
statusVars == <<sClass, sText, sOut>>
fieldVars == <<dText, dOnce, dTwice, phRaw, phOut, rtRaw, rtOut, upTd, upOut>>

NotArmed == -1
NullTime == -1
InitRef == -1
NoError == [isNull |-> TRUE]
NoResponse == [isNull |-> TRUE]
NoAttempt == [isNull |-> TRUE]
NoResult == [isNull |-> TRUE]

\* let cache = { lastFetched: null, items: [], error: null }
InitialCache == [ref |-> InitRef, lastFetched |-> NullTime, items |-> <<>>, error |-> NoError]

\* A success that writes the fields of the existing object.
CacheAfterSuccessInPlace(c, a, items, t) ==
  [c EXCEPT !.lastFetched = t, !.items = items, !.error = NoError]

\* A success that stamps the time and keeps the items it had.
CacheAfterSuccessTorn(c, a, items, t) ==
  [ref |-> a, lastFetched |-> t, items |-> c.items, error |-> NoError]

\* A success that carries the error of the object it replaces over.
CacheAfterSuccessKeepsError(c, a, items, t) ==
  [ref |-> a, lastFetched |-> t, items |-> items, error |-> c.error]

\* cache = { lastFetched: new Date().toISOString(), items: deduped, error: null }:
\* a new object, allocated by attempt a.
CacheAfterSuccess(c, a, items, t) ==
  [ref |-> a, lastFetched |-> t, items |-> items, error |-> NoError]

\* err?.message || "Unknown error"
ErrorMessage(err) == IF err = "" THEN "Unknown error" ELSE err

\* A catch block that starts over from an empty cache.
CacheAfterFailureReset(c, err, t) ==
  [c EXCEPT !.lastFetched = NullTime, !.items = <<>>,
            !.error = [message |-> ErrorMessage(err), time |-> t]]

\* cache.error = { message: ..., time: new Date().toISOString() }
CacheAfterFailure(c, err, t) ==
  [c EXCEPT !.error = [message |-> ErrorMessage(err), time |-> t]]

\* A fetchBoard without the catch block: the promise rejects.
FetchBoardRethrows(err) == "rejected"

\* The try/catch of fetchBoard encloses the whole body: the promise resolves.
FetchBoardSettles(err) == "resolved"

\* res.json({ lastFetched: cache.lastFetched, items: cache.items, error: cache.error })
StatusResponse(c) == [lastFetched |-> c.lastFetched, items |-> c.items, error |-> c.error]

IdlePipe == pStage = "idle" /\ pTrs = <<>> /\ pItems = <<>> /\ pDeduped = <<>>
IdleStatus == sClass = <<>> /\ sText = <<>> /\ sOut = "pending"
IdleDecode == dText = <<>> /\ dOnce = Null /\ dTwice = Null
IdlePhone == phRaw = <<>> /\ phOut = NoResult
IdleReturning == rtRaw = <<>> /\ rtOut = NoResult
IdleUpdated == upTd = Cell(<<>>) /\ upOut = NoResult
IdleField == IdleDecode /\ IdlePhone /\ IdleReturning /\ IdleUpdated

\* The process after the module has loaded: the startup's fetchBoard awaits
\* its response, no timer yet, no route yet.
InitLife ==
  /\ now = 0
  /\ nextTick = NotArmed
  /\ cache = InitialCache
  /\ listening = FALSE
  /\ resp = NoResponse
  /\ alive = TRUE
  /\ lastGood = [by |-> InitRef, lastFetched |-> NullTime, items |-> <<>>]
  /\ last = NoAttempt
  /\ failStreak = 0

Init ==
  /\ InitLife
  /\ pollMs \in 1..MaxPoll
  /\ inflight = {0}
  /\ IdlePipe
  /\ IdleStatus
  /\ IdleField

\* await fetchBoard(); setInterval(fetchBoard, POLL_MS); ...; app.listen(PORT)
AfterSettle(settled) ==
  /\ alive' = (settled = "resolved")
  /\ IF ~listening /\ settled = "resolved"
     THEN nextTick' = now + pollMs /\ listening' = TRUE
     ELSE UNCHANGED <<nextTick, listening>>

\* The response of attempt a arrives and the try block runs to its end.
FetchSucceeds(a, trs, host) ==
  /\ alive
  /\ a \in inflight
  /\ inflight' = inflight \ {a}
  /\ cache' = CacheAfterSuccess(cache, a, BoardAt[host][now][trs], now)
  /\ lastGood' = [by |-> a, lastFetched |-> now, items |-> BoardAt[host][now][trs]]
  /\ last' = [attempt |-> a, ok |-> TRUE, message |-> "", after |-> failStreak]
  /\ failStreak' = 0
  /\ AfterSettle("resolved")
  /\ UNCHANGED <<now, pollMs, resp>>
  /\ UNCHANGED pipeVars
  /\ UNCHANGED statusVars
  /\ UNCHANGED fieldVars

\* axios.get or the parse of attempt a throws err and the catch block runs.
FetchFails(a, err) ==
  /\ alive
  /\ a \in inflight
  /\ inflight' = inflight \ {a}
  /\ cache' = CacheAfterFailure(cache, err, now)
  /\ last' = [attempt |-> a, ok |-> FALSE, message |-> err, after |-> failStreak]
  /\ failStreak' = failStreak + 1
  /\ AfterSettle(FetchBoardSettles(err))
  /\ UNCHANGED <<now, pollMs, resp, lastGood>>
  /\ UNCHANGED pipeVars
  /\ UNCHANGED statusVars
  /\ UNCHANGED fieldVars

\* The setInterval timer fires and calls fetchBoard, which awaits axios.get.
TimerTick ==
  /\ alive
  /\ nextTick # NotArmed
  /\ now = nextTick
  /\ inflight' = inflight \cup {now}
  /\ nextTick' = now + pollMs
  /\ UNCHANGED <<now, pollMs, cache, listening, resp, alive, lastGood, last, failStreak>>
  /\ UNCHANGED pipeVars
  /\ UNCHANGED statusVars
  /\ UNCHANGED fieldVars

\* Time passes: not beyond a due timer, nor beyond the timeout of a request.
Advance ==
  /\ alive
  /\ now < MaxTime
  /\ nextTick # NotArmed => now < nextTick
  /\ \A a \in inflight : now < a + FetchTimeout
  /\ now' = now + 1
  /\ UNCHANGED <<pollMs, nextTick, inflight, cache, listening, resp, alive, lastGood,
                 last, failStreak>>
  /\ UNCHANGED pipeVars
  /\ UNCHANGED statusVars
  /\ UNCHANGED fieldVars

\* app.get("/api/status", ...): the handler runs without yielding.
GetApiStatus ==
  /\ alive
  /\ listening
  /\ resp' = StatusResponse(cache)
  /\ UNCHANGED <<now, pollMs, nextTick, inflight, cache, listening, alive, lastGood,
                 last, failStreak>>
  /\ UNCHANGED pipeVars
  /\ UNCHANGED statusVars
  /\ UNCHANGED fieldVars

Next ==
  \/ \E a \in inflight, trs \in PageChoices, host \in HostChoices :
       FetchSucceeds(a, trs, host)
  \/ \E a \in inflight, err \in ErrChoices : FetchFails(a, err)
  \/ TimerTick
  \/ Advance
  \/ GetApiStatus

Spec == Init /\ [][Next]_vars

\* ------------------------------------------------- pipeline specification
\* One run of the try block of fetchBoard on every page of at most MaxRows
\* rows, one statement at a time.
InitPipe ==
  /\ InitLife
  /\ pollMs = 1
  /\ inflight = {}
  /\ pStage = "fetched"
  /\ pTrs \in PagesUpTo(MaxRows)
  /\ pItems = <<>>
  /\ pDeduped = <<>>
  /\ IdleStatus
  /\ IdleField

\* rows.each((i, tr) => { const rec = rowToRecord($, tr); if (rec && rec.id) items.push(rec) })
PipeCollect ==
  /\ pStage = "fetched"
  /\ \E host \in HostChoices : pItems' = CollectItems(SelectRows(pTrs), now, host)
  /\ pStage' = "collected"
  /\ UNCHANGED <<pTrs, pDeduped, cache>>
  /\ UNCHANGED lifeVars
  /\ UNCHANGED statusVars
  /\ UNCHANGED fieldVars

\* const deduped = Object.values(items.reduce(...))
PipeDedup ==
  /\ pStage = "collected"
  /\ pDeduped' = Dedup(pItems)
  /\ pStage' = "deduped"
  /\ UNCHANGED <<pTrs, pItems, cache>>
  /\ UNCHANGED lifeVars
  /\ UNCHANGED statusVars
  /\ UNCHANGED fieldVars

\* deduped.sort(...)
PipeSort ==
  /\ pStage = "deduped"
  /\ pDeduped' = SortItems(pDeduped)
  /\ pStage' = "sorted"
  /\ UNCHANGED <<pTrs, pItems, cache>>
  /\ UNCHANGED lifeVars
  /\ UNCHANGED statusVars
  /\ UNCHANGED fieldVars

\* cache = { lastFetched: ..., items: deduped, error: null }
PipeInstall ==
  /\ pStage = "sorted"
  /\ cache' = CacheAfterSuccess(cache, 0, pDeduped, now)
  /\ pStage' = "installed"
  /\ UNCHANGED <<pTrs, pItems, pDeduped>>
  /\ UNCHANGED lifeVars
  /\ UNCHANGED statusVars
  /\ UNCHANGED fieldVars

NextPipe == PipeCollect \/ PipeDedup \/ PipeSort \/ PipeInstall

PipeSpec == InitPipe /\ [][NextPipe]_vars

\* ----------------------------------------------- classifier specification
\* normalizeStatus on every pair of a row class and a status cell text.
ClassChoices ==
  {Null, <<>>,
   <<"I", "n", "I", "t", "e", "m">>,
   <<"O", "u", "t", "I", "t", "e", "m">>,
   <<"U", "n", "a", "v", "a", "i", "l", "a", "b", "l", "e", "I", "t", "e", "m">>,
   <<"O", "t", "l", "k", " ", "I", "N", "I", "T", "E", "M">>,
   <<"O", "u", "t", "I", "t", "e", "m", " ", "I", "n", "I", "t", "e", "m">>,
   <<"u", "n", "a", "v", "a", "i", "l", "a", "b", "l", "e", " ", "o", "u", "t", "i", "t", "e", "m">>,
   <<"F", "o", "o", "B", "a", "r">>}

TextChoices ==
  {Null, <<>>,
   <<"I", "n">>, <<"O", "u", "t">>,
   <<"U", "n", "a", "v", "a", "i", "l", "a", "b", "l", "e">>,
   <<"I", "N">>, <<"o", "U", "t">>,
   <<"I", "n", "n">>, <<"?", "?", "?">>}

InitStatus ==
  /\ InitLife
  /\ pollMs = 1
  /\ inflight = {}
  /\ IdlePipe
  /\ sClass \in ClassChoices
  /\ sText \in TextChoices
  /\ sOut = "pending"
  /\ IdleField

Classify ==
  /\ sOut = "pending"
  /\ sOut' = normalizeStatus(sClass, sText)
  /\ UNCHANGED <<sClass, sText, cache>>
  /\ UNCHANGED lifeVars
  /\ UNCHANGED pipeVars
  /\ UNCHANGED fieldVars

NextStatus == Classify

StatusSpec == InitStatus /\ [][NextStatus]_vars

\* ------------------------------------------- cell parser specifications
\* Every text made of at most n of the given pieces.
RECURSIVE TextsUpTo(_, _)
TextsUpTo(pieces, n) ==
  IF n = 0 THEN {<<>>}
  ELSE TextsUpTo(pieces, n - 1) \cup
       {t \o p : t \in TextsUpTo(pieces, n - 1), p \in pieces}

InitIdle ==
  /\ InitLife
  /\ pollMs = 1
  /\ inflight = {}
  /\ IdlePipe
  /\ IdleStatus

\* decode on texts of character references, escaped character references
\* and every kind of space, and decode on its own result, as parsePhone and
\* parseReturning apply it to a text that extractCellText decoded before.
DecodePieces ==
  {<<"&">>, <<"a", "m", "p", ";">>, <<"n", "b", "s", "p", ";">>, <<"l", "t", ";">>,
   <<" ">>, <<"\t">>, <<NBSP>>, <<"\n">>, <<"a">>}

InitDecode ==
  /\ InitIdle
  /\ dText \in TextsUpTo(DecodePieces, MaxPieces) \cup {Null}
  /\ dOnce = Null
  /\ dTwice = Null
  /\ IdlePhone
  /\ IdleReturning
  /\ IdleUpdated

DecodeOnce ==
  /\ dOnce = Null
  /\ dOnce' = decode(dText)
  /\ UNCHANGED <<dText, dTwice, phRaw, phOut, rtRaw, rtOut, upTd, upOut, cache>>
  /\ UNCHANGED lifeVars
  /\ UNCHANGED pipeVars
  /\ UNCHANGED statusVars

DecodeTwice ==
  /\ dOnce # Null
  /\ dTwice = Null
  /\ dTwice' = decode(dOnce)
  /\ UNCHANGED <<dText, dOnce, phRaw, phOut, rtRaw, rtOut, upTd, upOut, cache>>
  /\ UNCHANGED lifeVars
  /\ UNCHANGED pipeVars
  /\ UNCHANGED statusVars

NextDecode == DecodeOnce \/ DecodeTwice

DecodeSpec == InitDecode /\ [][NextDecode]_vars

\* parsePhone on texts of digit groups and separators.
PhonePieces ==
  {<<"7", "0", "1", ".">>, <<"7", "7", "7">>, <<"7", "8", "6", "8">>, <<"1", " ">>,
   <<"-">>, <<"(">>, <<"x">>, <<"&", "n", "b", "s", "p", ";">>}

InitPhone ==
  /\ InitIdle
  /\ phRaw \in TextsUpTo(PhonePieces, MaxPieces) \cup {Null}
  /\ phOut = NoResult
  /\ IdleDecode
  /\ IdleReturning
  /\ IdleUpdated

ParsePhone ==
  /\ phOut = NoResult
  /\ phOut' = parsePhone(phRaw)
  /\ UNCHANGED <<dText, dOnce, dTwice, phRaw, rtRaw, rtOut, upTd, upOut, cache>>
  /\ UNCHANGED lifeVars
  /\ UNCHANGED pipeVars
  /\ UNCHANGED statusVars

NextPhone == ParsePhone

PhoneSpec == InitPhone /\ [][NextPhone]_vars

\* parseReturning on texts of digit groups, minutes, meridiems and words.
ReturningPieces ==
  {<<"9">>, <<"1", "2">>, <<"2", "5">>, <<"9", "9">>, <<":">>, <<":", "3", "0">>,
   <<" ", "P", "M">>, <<"a", "m">>, <<"T", "h", "u">>, <<" ", "m", "o", "d">>}

InitReturning ==
  /\ InitIdle
  /\ rtRaw \in TextsUpTo(ReturningPieces, MaxPieces) \cup {Null}
  /\ rtOut = NoResult
  /\ IdleDecode
  /\ IdlePhone
  /\ IdleUpdated

ParseReturning ==
  /\ rtOut = NoResult
  /\ rtOut' = parseReturning(rtRaw)
  /\ UNCHANGED <<dText, dOnce, dTwice, phRaw, phOut, rtRaw, upTd, upOut, cache>>
  /\ UNCHANGED lifeVars
  /\ UNCHANGED pipeVars
  /\ UNCHANGED statusVars

NextReturning == ParseReturning

ReturningSpec == InitReturning /\ [][NextReturning]_vars

\* $(td).text() of a cell with the given markup: the text nodes, with the
\* character references resolved (each once).
CellText(html) ==
  LET t0 == StripTagsFrom(html, 1)
      t1 == ReplaceAll(t0, <<"&", "n", "b", "s", "p", ";">>, <<NBSP>>)
      t2 == ReplaceAll(t1, <<"&", "l", "t", ";">>, <<"<">>)
      t3 == ReplaceAll(t2, <<"&", "g", "t", ";">>, <<">">>)
  IN ReplaceAll(t3, <<"&", "a", "m", "p", ";">>, <<"&">>)

\* The td whose markup is html.
CellOf(html) == [text |-> CellText(html), html |-> html]

\* A row of the board whose Updated cell is td.
RowUpdated(td) ==
  [class |-> <<"I", "n", "I", "t", "e", "m">>, id |-> <<"R", "o", "w", "7">>,
   tds |-> <<Cell(<<"7">>), Cell(<<"I", "n">>), Cell(<<"C", "y">>),
             Cell(<<>>), Cell(<<>>), Cell(<<>>), td>>]

\* A refresh of a page with one row, whose Updated cell has markup made of the
\* format token's halves, timestamps, tags and placeholders; upOut is what
\* parseUpdatedFromCell returned for the cell.
UpdatedPieces ==
  {<<"M", "M", "/", "d", "d">>,
   <<" ", "H", "H", ":", "m", "m">>, <<"&", "n", "b", "s", "p", ";", "h", "h", ":", "M", "M">>,
   <<"<", "b", ">">>,
   <<"0", "1", "/", "1", "5">>, <<" ", "1", "0", ":", "3", "0">>,
   <<EMDASH>>, IsoDateText}

InitUpdated ==
  /\ InitIdle
  /\ upTd \in {CellOf(html) : html \in TextsUpTo(UpdatedPieces, MaxPieces)}
  /\ upOut = NoResult
  /\ IdleDecode
  /\ IdlePhone
  /\ IdleReturning

ParseUpdated(host) ==
  /\ upOut = NoResult
  /\ upOut' = parseUpdatedFromCell(upTd, host)
  /\ cache' = CacheAfterSuccess(cache, 0, ReduceBoard(<<RowUpdated(upTd)>>, now, host), now)
  /\ UNCHANGED <<dText, dOnce, dTwice, phRaw, phOut, rtRaw, rtOut, upTd>>
  /\ UNCHANGED lifeVars
  /\ UNCHANGED pipeVars
  /\ UNCHANGED statusVars

NextUpdated == \E host \in HostChoices : ParseUpdated(host)

UpdatedSpec == InitUpdated /\ [][NextUpdated]_vars

\* ------------------------------------------------------------------ claims
\* A step that completes a refresh attempt, by its catch block or by the
\* replacement of the cache.
FailStep == last' # last /\ ~last'.ok
SuccessStep == last' # last /\ last'.ok
ReadStep == resp' # resp

\* C1: a failed refresh leaves items and lastFetched exactly as they were,
\* which is what the latest successful refresh wrote, however many failures
\* came before it; error becomes non-null, with the failure's message and the
\* time of the failure.
TheoremC1 ==
  [][FailStep =>
       /\ cache'.items = cache.items
       /\ cache'.lastFetched = cache.lastFetched
       /\ cache'.items = lastGood.items
       /\ cache'.lastFetched = lastGood.lastFetched
       /\ cache'.error # NoError
       /\ cache'.error.time = now
       /\ cache'.error.message # ""
       /\ last'.message # "" => cache'.error.message = last'.message]_vars

\* Two failures in a row after a successful refresh of a board with records.
WitnessC1 ==
  /\ failStreak >= 2
  /\ lastGood.by # InitRef
  /\ Len(cache.items) >= 1
  /\ cache.lastFetched < now
  /\ cache.error # NoError

\* C2: at most one fetchBoard call is in flight at any time.
ClaimC2 == Cardinality(inflight) <= 1

\* C3 as stated: what a read returns was written together by one successful
\* refresh.
ClaimC3 ==
  [][ReadStep =>
       /\ lastGood.by # InitRef
       /\ resp'.lastFetched = lastGood.lastFetched
       /\ resp'.items = lastGood.items]_vars

\* C3: the lastFetched and the items a read returns were written together, by
\* the latest successful refresh or, when none has succeeded yet, by the
\* initialisation of the cache (null and no items).
TheoremC3 ==
  [][ReadStep =>
       /\ resp'.lastFetched = lastGood.lastFetched
       /\ resp'.items = lastGood.items
       /\ lastGood.by = InitRef => resp'.lastFetched = NullTime /\ resp'.items = <<>>
       /\ lastGood.by # InitRef => resp'.lastFetched # NullTime]_vars

\* A read of what a timer-started refresh wrote, another refresh in flight.
WitnessC3 ==
  /\ resp # NoResponse
  /\ lastGood.by > 0
  /\ resp.lastFetched = lastGood.lastFetched
  /\ Len(resp.items) >= 2
  /\ inflight # {}

\* C4 as stated: no field of an installed snapshot object ever changes.
ClaimC4 == [][cache'.ref = cache.ref => cache' = cache]_vars

\* C4: a successful refresh installs a new snapshot object; a failed refresh
\* keeps the installed object and changes its error field in place, and no
\* refresh changes the lastFetched or the items of an installed object.
TheoremC4 ==
  [][/\ cache'.ref = cache.ref =>
          cache'.lastFetched = cache.lastFetched /\ cache'.items = cache.items
     /\ SuccessStep => cache'.ref # cache.ref
     /\ FailStep =>
          cache'.ref = cache.ref /\ cache'.error # NoError /\ cache'.error.time = now]_vars

\* An object installed by a refresh whose error field a later failure set.
WitnessC4 ==
  /\ cache.ref # InitRef
  /\ cache.error # NoError
  /\ Len(cache.items) >= 1

\* C5: no failure ends the process or the timer, a failure starts no attempt
\* of its own, reads keep returning the items of the latest successful
\* refresh, a due timer can start a refresh, and a refresh that succeeds
\* installs its board.
TheoremC5 ==
  /\ [](alive /\ (listening => nextTick # NotArmed))
  /\ []((listening /\ now = nextTick) => ENABLED TimerTick)
  /\ [][/\ FailStep =>
             /\ inflight' = inflight \ {last'.attempt}
             /\ listening => nextTick' = nextTick
             /\ cache'.items = lastGood.items
        /\ ReadStep => resp'.items = lastGood.items
        /\ SuccessStep =>
             /\ cache'.items = lastGood'.items
             /\ lastGood'.by = last'.attempt
             /\ cache'.lastFetched = now
             /\ cache'.error = NoError]_vars

\* A refresh started by the timer succeeded right after failures.
WitnessC5 ==
  /\ last # NoAttempt
  /\ last.ok
  /\ last.after >= 1
  /\ last.attempt > 0
  /\ Len(cache.items) >= 1
  /\ cache.error = NoError

\* C6: every record of the cache has a non-empty id and no two records share
\* an id.
TheoremC6 ==
  \A i \in 1..Len(cache.items) :
    /\ cache.items[i].id # Null
    /\ Len(cache.items[i].id) >= 1
    /\ \A j \in 1..Len(cache.items) : cache.items[i].id = cache.items[j].id => i = j

\* A board installed from a page that rendered an id twice and a row whose
\* id came from the id attribute.
WitnessC6 ==
  /\ pStage = "installed"
  /\ Len(cache.items) >= 2
  /\ Len(pItems) > Len(cache.items)
  /\ \E i \in 1..Len(cache.items) : cache.items[i].id = <<"x">>

StatusSet == {"In", "Out", "Unavailable", "Unknown"}

\* C7: the status of every collected and every cached record is one of In,
\* Out, Unavailable and Unknown.
TheoremC7 ==
  /\ \A i \in 1..Len(cache.items) : cache.items[i].status \in StatusSet
  /\ \A i \in 1..Len(pItems) : pItems[i].status \in StatusSet

\* A cached record of a row whose class and status text are no known status.
WitnessC7 ==
  /\ pStage = "installed"
  /\ \E i \in 1..Len(cache.items) :
       /\ cache.items[i].status = "Unknown"
       /\ cache.items[i].meta.trClass = <<"F", "o", "o", "I", "t", "e", "m">>
  /\ \E i \in 1..Len(cache.items) : cache.items[i].status = "In"

InMarker == <<"i", "n", "i", "t", "e", "m">>
OutMarker == <<"o", "u", "t", "i", "t", "e", "m">>
UnavailableMarker == <<"u", "n", "a", "v", "a", "i", "l", "a", "b", "l", "e">>

ClassHas(marker) == Contains(toLowerCase(OrEmpty(sClass)), marker)
TextIs(word) == toLowerCase(OrEmpty(sText)) = word

\* C8 as stated: the class decides whenever it carries a marker, the text only
\* when it carries none.
ClaimC8 ==
  sOut # "pending" =>
    sOut = IF ClassHas(InMarker) THEN "In"
           ELSE IF ClassHas(OutMarker) THEN "Out"
           ELSE IF ClassHas(UnavailableMarker) THEN "Unavailable"
           ELSE IF TextIs(<<"i", "n">>) THEN "In"
           ELSE IF TextIs(<<"o", "u", "t">>) THEN "Out"
           ELSE IF TextIs(UnavailableMarker) THEN "Unavailable"
           ELSE "Unknown"

\* C8: the statuses are tried in the order In, Out, Unavailable, and a status
\* is chosen when the class carries its marker or the text is its word; the
\* class carrying a later status' marker does not outrank the text of an
\* earlier one (class out marker with text "In" is In).
TheoremC8 ==
  sOut # "pending" =>
    LET in == ClassHas(InMarker) \/ TextIs(<<"i", "n">>)
        out == ClassHas(OutMarker) \/ TextIs(<<"o", "u", "t">>)
        unavailable == ClassHas(UnavailableMarker) \/ TextIs(UnavailableMarker)
    IN /\ in => sOut = "In"
       /\ ~in /\ out => sOut = "Out"
       /\ ~in /\ ~out /\ unavailable => sOut = "Unavailable"
       /\ ~in /\ ~out /\ ~unavailable => sOut = "Unknown"

\* The class carries the out marker alone, the text is "In", the result In.
WitnessC8 ==
  /\ sOut = "In"
  /\ ClassHas(OutMarker)
  /\ ~ClassHas(InMarker)
  /\ TextIs(<<"i", "n">>)

\* C9: after the deduplication every id of items has exactly one record in
\* deduped, the record of its last occurrence, and deduped has as many
\* records as items has distinct ids.
ClaimC9 ==
  pStage \in {"deduped", "sorted", "installed"} =>
    /\ \A i \in 1..Len(pItems) :
         LET lastAt == CHOOSE k \in 1..Len(pItems) :
                         /\ pItems[k].id = pItems[i].id
                         /\ \A m \in (k + 1)..Len(pItems) : pItems[m].id # pItems[i].id
         IN /\ Cardinality({k \in 1..Len(pDeduped) : pDeduped[k].id = pItems[i].id}) = 1
            /\ \E k \in 1..Len(pDeduped) : pDeduped[k] = pItems[lastAt]
    /\ Len(pDeduped) = Cardinality({pItems[i].id : i \in 1..Len(pItems)})

RankC10(status) ==
  CASE status = "In" -> 0
    [] status = "Out" -> 1
    [] status = "Unavailable" -> 2
    [] status = "Unknown" -> 3

\* C10: in the installed board every adjacent pair is in status priority
\* order, and within one status in ascending name order, a null name counting
\* as the empty string.
TheoremC10 ==
  pStage = "installed" =>
    \A k \in 1..(Len(cache.items) - 1) :
      LET a == cache.items[k]
          b == cache.items[k + 1]
      IN /\ RankC10(a.status) <= RankC10(b.status)
         /\ a.status = b.status => localeCompare(OrEmpty(a.name), OrEmpty(b.name)) <= 0

\* Three records of one status, one without a name, installed in another
\* order than the page rendered them.
WitnessC10 ==
  /\ pStage = "installed"
  /\ Len(cache.items) = 3
  /\ cache.items[1].name = Null
  /\ cache.items[2].name = <<"A", "l">>
  /\ cache.items[3].name = <<"B", "o", "b">>
  /\ cache.items[3].status = cache.items[1].status
  /\ pItems[1].id = cache.items[3].id

\* The number of records of items that carry the id, and the position of the
\* first of them.
OccurrencesC11(id) == Cardinality({k \in 1..Len(pItems) : pItems[k].id = id})
PositionC11(id) == CHOOSE k \in 1..Len(pItems) : pItems[k].id = id

\* C11: two records of the sorted board with the same status and the same
\* name, whose ids each occur once in items, stand in the order of their
\* source rows, whatever their ids look like.
ClaimC11 ==
  pStage \in {"sorted", "installed"} =>
    \A i \in 1..Len(pDeduped), j \in 1..Len(pDeduped) :
      (/\ i < j
       /\ pDeduped[i].status = pDeduped[j].status
       /\ pDeduped[i].name = pDeduped[j].name
       /\ OccurrencesC11(pDeduped[i].id) = 1
       /\ OccurrencesC11(pDeduped[j].id) = 1)
      => PositionC11(pDeduped[i].id) < PositionC11(pDeduped[j].id)

\* C12: decode is idempotent: decoding a decoded text changes nothing,
\* escaped character references and mixed spaces included.
ClaimC12 == dTwice # Null => dTwice = dOnce

\* C13: the result of the phone normalizer follows from the number n of
\* digits of the decoded text: ten digits give +1 and the digits, and the
\* pretty form (AAA) BBB-CCCC; seven give no e164 and AAA-BBBB; eleven or more
\* give + and the digits, pretty the text; any other n >= 1 gives no e164,
\* pretty the text; no digit gives digits and e164 null, pretty the text; the
\* empty text gives four nulls. Every input has a result.
TheoremC13 ==
  phOut # NoResult =>
    LET text == decode(phRaw)
        d == SelectSeq(text, IsDigit)
        n == Cardinality({i \in 1..Len(text) : IsDigit(text[i])})
    IN /\ DOMAIN phOut = {"raw", "digits", "e164", "pretty"}
       /\ text = <<>> =>
            phOut.raw = Null /\ phOut.digits = Null /\ phOut.e164 = Null /\ phOut.pretty = Null
       /\ text # <<>> => phOut.raw = text
       /\ text # <<>> /\ n = 0 =>
            phOut.digits = Null /\ phOut.e164 = Null /\ phOut.pretty = text
       /\ n >= 1 => phOut.digits = d
       /\ n = 10 =>
            /\ phOut.e164 = <<"+", "1">> \o d
            /\ phOut.pretty = <<"(", d[1], d[2], d[3], ")", " ", d[4], d[5], d[6], "-",
                                d[7], d[8], d[9], d[10]>>
       /\ n = 7 =>
            /\ phOut.e164 = Null
            /\ phOut.pretty = <<d[1], d[2], d[3], "-", d[4], d[5], d[6], d[7]>>
       /\ n >= 11 => phOut.e164 = <<"+">> \o d /\ phOut.pretty = text
       /\ n >= 1 /\ n < 10 /\ n # 7 => phOut.e164 = Null /\ phOut.pretty = text

\* A ten-digit number written with a separator, normalized.
WitnessC13 ==
  /\ phOut # NoResult
  /\ phOut.digits # Null
  /\ Len(phOut.digits) = 10
  /\ Len(phOut.raw) > 10
  /\ phOut.e164 = <<"+", "1">> \o phOut.digits

\* The text has an hour of one or two digits that starts a word at i, then
\* an optional colon and an optional pair of minute digits (hd, cn and md
\* characters), then spaces up to a meridiem at k that ends a word.
MeridiemTimeC14(text, i, hd, cn, md, k) ==
  /\ i + hd + cn + md <= k
  /\ k + 1 <= Len(text)
  /\ i = 1 \/ ~IsWordChar(text[i - 1])
  /\ \A x \in i..(i + hd - 1) : IsDigit(text[x])
  /\ cn = 1 => text[i + hd] = ":"
  /\ \A x \in (i + hd + cn)..(i + hd + cn + md - 1) : IsDigit(text[x])
  /\ \A x \in (i + hd + cn + md)..(k - 1) : IsSpace(text[x])
  /\ <<text[k], text[k + 1]>> \in {a \o b : a \in {<<"A">>, <<"a">>, <<"P">>, <<"p">>},
                                              b \in {<<"M">>, <<"m">>}}
  /\ k + 1 = Len(text) \/ ~IsWordChar(text[k + 2])

\* The positions where a word of letters starts, and where the word that
\* starts at i ends.
WordStartsC14(text) ==
  {i \in 1..Len(text) : IsAlpha(text[i]) /\ (i = 1 \/ ~IsAlpha(text[i - 1]))}
WordEndC14(text, i) ==
  CHOOSE e \in i..Len(text) :
    /\ \A x \in i..e : IsAlpha(text[x])
    /\ e = Len(text) \/ ~IsAlpha(text[e + 1])

\* C14: the returning-time parser tries three forms in order: a decoded text
\* of three or four digits is padded on the left to four and split into
\* HH:MM; otherwise a text with an hour[:minutes] AM/PM in it gives a
\* zero-padded hhmm and a pretty form that keeps the meridiem; otherwise hhmm
\* is null, pretty is the decoded text and tokens are its words of letters in
\* order, so a meridiem without digits before it is free-form; the empty text
\* gives raw, hhmm and pretty null and no tokens.
TheoremC14 ==
  rtOut # NoResult =>
    LET text == decode(rtRaw)
        pure == Len(text) \in {3, 4} /\ \A x \in 1..Len(text) : IsDigit(text[x])
        p == IF Len(text) = 3 THEN <<"0">> \o text ELSE text
        matches == {m \in (1..Len(text)) \X {1, 2} \X {0, 1} \X {0, 2} \X (1..Len(text)) :
                      MeridiemTimeC14(text, m[1], m[2], m[3], m[4], m[5])}
    IN /\ text = <<>> =>
            /\ rtOut.raw = Null /\ rtOut.hhmm = Null /\ rtOut.pretty = Null
            /\ rtOut.tokens = <<>>
       /\ text # <<>> => rtOut.raw = text
       /\ pure => rtOut.hhmm = <<p[1], p[2], ":", p[3], p[4]>>
       /\ ~pure /\ matches # {} =>
            \E m \in matches :
              LET hour == SubSeq(text, m[1], m[1] + m[2] - 1)
                  mins == IF m[4] = 0 THEN <<"0", "0">>
                          ELSE SubSeq(text, m[1] + m[2] + m[3], m[1] + m[2] + m[3] + 1)
                  hh == IF Len(hour) = 1 THEN <<"0">> \o hour ELSE hour
                  ampm == <<IF text[m[5]] \in {"A", "a"} THEN "A" ELSE "P", "M">>
              IN /\ rtOut.hhmm = hh \o <<":">> \o mins
                 /\ rtOut.pretty =
                      (IF hh[1] = "0" THEN <<hh[2]>> ELSE hh) \o <<":">> \o mins
                        \o <<" ">> \o ampm
       /\ text # <<>> /\ ~pure /\ matches = {} =>
            /\ rtOut.hhmm = Null
            /\ rtOut.pretty = text
            /\ Len(rtOut.tokens) = Cardinality(WordStartsC14(text))
            /\ \A i \in WordStartsC14(text) :
                 rtOut.tokens[1 + Cardinality({j \in WordStartsC14(text) : j < i})]
                   = SubSeq(text, i, WordEndC14(text, i))

\* Thu PM mod: a meridiem with no digits before it, parsed as free-form.
WitnessC14 ==
  /\ rtOut # NoResult
  /\ rtOut.raw = <<"T", "h", "u", " ", "P", "M", " ", "m", "o", "d">>
  /\ rtOut.hhmm = Null
  /\ rtOut.pretty = rtOut.raw
  /\ rtOut.tokens = <<<<"T", "h", "u">>, <<"P", "M">>, <<"m", "o", "d">>>>

\* C15: a non-null hhmm is a zero-padded time of the 24-hour clock: two hour
\* digits from 00 to 23, a colon, two minute digits from 00 to 59, for every
\* text of three or four digits and for every AM/PM text, where an hour of
\* the afternoon is rendered in 24-hour form (9:30 PM as 21:30).
ClaimC15 ==
  (rtOut # NoResult /\ rtOut.hhmm # Null) =>
    /\ Len(rtOut.hhmm) = 5
    /\ rtOut.hhmm[3] = ":"
    /\ \A x \in {1, 2, 4, 5} : IsDigit(rtOut.hhmm[x])
    /\ IndexValue(SubSeq(rtOut.hhmm, 1, 2)) <= 23
    /\ IndexValue(SubSeq(rtOut.hhmm, 4, 5)) <= 59
    /\ rtOut.tokens = <<<<"P", "M">>>> => IndexValue(SubSeq(rtOut.hhmm, 1, 2)) >= 12

\* The extracted text of the cell is the unpopulated format token, in any
\* case of its letters: MM/dd, one space character, HH:mm.
IsFormatTokenC16 ==
  toLowerCase(extractCellText(upTd)) \in
    {<<"m", "m", "/", "d", "d">> \o <<sp>> \o <<"h", "h", ":", "m", "m">> : sp \in SpaceClass}

TemplatePlaceholderC16 ==
  <<"t", "e", "m", "p", "l", "a", "t", "e", " ",
    "p", "l", "a", "c", "e", "h", "o", "l", "d", "e", "r">>

\* C16 as stated: for the format token the parser returns three nulls and the
\* debug tag "template placeholder".
ClaimC16 ==
  (upOut # NoResult /\ IsFormatTokenC16) =>
    /\ upOut.local = Null
    /\ upOut.isoGuess = NoIso
    /\ upOut.epochMs = NoNumber
    /\ upOut.debug = TemplatePlaceholderC16

\* C16: when the extracted text of the Updated cell is the unpopulated format
\* token, the parser returns local, isoGuess and epochMs null and the debug
\* tag "FormatTokenSeen".
TheoremC16 ==
  (upOut # NoResult /\ IsFormatTokenC16) =>
    /\ upOut.local = Null
    /\ upOut.isoGuess = NoIso
    /\ upOut.epochMs = NoNumber
    /\ upOut.debug = FormatTokenSeen

\* A cell that renders the format token inside a tag, with a non-breaking
\* space between its halves.
WitnessC16 ==
  /\ upOut # NoResult
  /\ IsFormatTokenC16
  /\ upOut.debug = FormatTokenSeen
  /\ upTd.html # upTd.text
  /\ Contains(upTd.text, <<NBSP>>)

\* C17: for an Updated cell whose text is not the format token, debug is
\* null and local is the extracted text (null when it is empty); isoGuess and
\* epochMs are both null or both not null; and epochMs is never NaN, in what
\* the parser returns and in every record of the cache.
TheoremC17 ==
  upOut # NoResult =>
    /\ ~IsFormatTokenC16 =>
         /\ upOut.debug = Null
         /\ upOut.local =
              (IF extractCellText(upTd) = <<>> THEN Null ELSE extractCellText(upTd))
         /\ (upOut.isoGuess = NoIso) <=> (upOut.epochMs = NoNumber)
         /\ extractCellText(upTd) = <<>> => upOut.epochMs = NoNumber
    /\ upOut.epochMs # NoNumber => ~upOut.epochMs.nan
    /\ \A i \in 1..Len(cache.items) :
         /\ cache.items[i].updated = upOut
         /\ cache.items[i].updated.epochMs # NaN
         /\ cache.items[i].updated.epochMs # NoNumber =>
              ~cache.items[i].updated.epochMs.nan

\* A timestamp the host could not read as a date: local keeps the text,
\* isoGuess and epochMs are null, and the record of the cache says the same.
WitnessC17 ==
  /\ upOut # NoResult
  /\ ~IsFormatTokenC16
  /\ upOut.local = <<"0", "1", "/", "1", "5", " ", "1", "0", ":", "3", "0">>
  /\ upOut.isoGuess = NoIso
  /\ upOut.epochMs = NoNumber
  /\ Len(cache.items) = 1
  /\ cache.items[1].updated.epochMs = NoNumber

\* The id a row resolves to: the text of its identity cell when that is not
\* empty, otherwise its id attribute without a leading Row.
ResolvedIdC18(tr) ==
  LET cellText == extractCellText(tr.tds[1])
      attr == IF tr.id = Null THEN <<>> ELSE tr.id
  IN IF cellText # <<>> THEN cellText
     ELSE IF Len(attr) >= 3 /\ SubSeq(attr, 1, 3) = <<"R", "o", "w">>
          THEN SubSeq(attr, 4, Len(attr))
     ELSE attr

AcceptedC18(tr) == Len(tr.tds) >= 7 /\ ResolvedIdC18(tr) # <<>>

\* C18: a source row yields a record if and only if it has at least seven
\* data cells and resolves to a non-empty id; the records of items are those
\* of the accepted rows, in order and under the resolved ids, whatever the
\* contact, returning and updated cells hold; a rejected row adds nothing
\* and sets no error.
TheoremC18 ==
  pStage # "fetched" =>
    LET accepted == SelectSeq(SelectSeq(pTrs, SelectedRow), AcceptedC18)
    IN /\ Len(pItems) = Len(accepted)
       /\ \A k \in 1..Len(accepted) :
            /\ pItems[k].id = ResolvedIdC18(accepted[k])
            /\ pItems[k].meta.rowIdAttr = accepted[k].id
       /\ cache.error = NoError

\* A page of an accepted row whose contact, returning and updated cells do
\* not parse, a row without an id and a row that takes its id from the id
\* attribute: two records.
WitnessC18 ==
  /\ pStage = "installed"
  /\ Len(pTrs) = 3
  /\ Len(pItems) = 2
  /\ Len(cache.items) = 2
  /\ \E k \in 1..2 :
       /\ pItems[k].contact.raw # Null
       /\ pItems[k].contact.digits = Null
       /\ pItems[k].returning.raw # Null
       /\ pItems[k].returning.hhmm = Null
       /\ pItems[k].updated.local # Null
       /\ pItems[k].updated.epochMs = NoNumber
  /\ \E k \in 1..2 : pItems[k].id = <<"x">>
  /\ \E k \in 1..3 : SelectedRow(pTrs[k]) /\ ~AcceptedC18(pTrs[k])

\* C19: once a refresh attempt has completed, error is non-null exactly when
\* the attempt that completed last failed: a success installs error null
\* together with its items and lastFetched, a failure writes the newest
\* failure over error, also when attempts overlap and complete in another
\* order than they started.
TheoremC19 ==
  /\ [](last # NoAttempt => ((cache.error # NoError) <=> ~last.ok))
  /\ [][/\ SuccessStep =>
             /\ cache'.error = NoError
             /\ cache'.items = lastGood'.items
             /\ cache'.lastFetched = now
        /\ FailStep =>
             /\ cache'.error # NoError
             /\ cache'.error.time = now
             /\ cache'.error.message = ErrorMessage(last'.message)]_vars

\* The attempt that completed last failed, after an attempt that started
\* later than it had succeeded and installed the board.
WitnessC19 ==
  /\ last # NoAttempt
  /\ ~last.ok
  /\ last.attempt > 0
  /\ cache.ref > last.attempt
  /\ cache.error # NoError
  /\ Len(cache.items) >= 1

====
